---- MODULE Spec2Model ----
(***************************************************************************)
(* A model of the CHIP-8 / SUPER-CHIP interpreter core of rs_chip8         *)
(* (core/src/lib.rs): the machine state, the loaders, tick_timer and the   *)
(* fetch-decode-execute step tick, translated opcode by opcode.            *)
(*                                                                         *)
(* Rust aborts a call (panics) on an out-of-range array index and on       *)
(* todo!(); an integer overflow panics in a build with overflow checks     *)
(* (debug profile) and wraps in a build without them (release profile).    *)
(* The build profile is the variable overflow_checks, chosen once.         *)
(***************************************************************************)
EXTENDS Integers, Sequences, FiniteSets, TLC

VARIABLES machine, before, outcome, call, overflow_checks, host, frames

vars == <<machine, before, outcome, call, overflow_checks, host, frames>>

(***************************************************************************)
(* Program constants                                                       *)
(***************************************************************************)
DISPLAY_WIDTH == 128
DISPLAY_HEIGHT == 64
RamSize == 4096
StackCapacity == 16
ProgramStart == 512
FontBase == 80
BigFontBase == 160
U8 == 256
U16 == 65536

EmulationSystem == {"Chip8", "SuperChip"}

(***************************************************************************)
(* Bounds of the model: how many of the tabulated random bytes and key     *)
(* masks the callbacks may return.                                         *)
(***************************************************************************)
NumRandom == 3
NumKeyMasks == 3

\* bounds of the desktop host: the keys of KEYMAP that are pressed, the events
\* that arrive and the frames that are run
NumKeys == 2
MaxEvents == 3
MaxLoops == 3

RandomTable == <<0, 255, 129, 1, 128>>
KeyTable == <<0, 2, 1, 3, 32768>>

RandomBytes == {RandomTable[i] : i \in 1..NumRandom}
KeyMasks == {KeyTable[i] : i \in 1..NumKeyMasks}

\* marks a callback that the step did not call
NotCalled == 0 - 1

(***************************************************************************)
(* Integer helpers: the bitwise operators of u8/u16                        *)
(***************************************************************************)
RECURSIVE Pow2(_)
Pow2(i) == IF i = 0 THEN 1 ELSE 2 * Pow2(i - 1)

Bit(v, i) == (v \div Pow2(i)) % 2

RECURSIVE BitAnd(_, _)
BitAnd(a, b) == IF a = 0 \/ b = 0 THEN 0
                ELSE ((a % 2) * (b % 2)) + 2 * BitAnd(a \div 2, b \div 2)

RECURSIVE BitOr(_, _)
BitOr(a, b) == IF a = 0 THEN b
               ELSE IF b = 0 THEN a
               ELSE (IF a % 2 = 1 \/ b % 2 = 1 THEN 1 ELSE 0)
                    + 2 * BitOr(a \div 2, b \div 2)

RECURSIVE BitXor(_, _)
BitXor(a, b) == IF a = 0 THEN b
                ELSE IF b = 0 THEN a
                ELSE ((a + b) % 2) + 2 * BitXor(a \div 2, b \div 2)

Min(a, b) == IF a < b THEN a ELSE b

(***************************************************************************)
(* Results of a call of tick                                               *)
(***************************************************************************)
Ok(disp_updated) == [kind |-> "Ok", disp_updated |-> disp_updated, code |-> 0]
StackOverflow == [kind |-> "StackOverflow", disp_updated |-> FALSE, code |-> 0]
IllegalInstruction(code) ==
    [kind |-> "IllegalInstruction", disp_updated |-> FALSE, code |-> code]
ProgramExited == [kind |-> "ProgramExited", disp_updated |-> FALSE, code |-> 0]
\* the call does not return: index out of range, overflow check, todo!()
Panic == [kind |-> "Panic", disp_updated |-> FALSE, code |-> 0]
NoResult == [kind |-> "None", disp_updated |-> FALSE, code |-> 0]

\* a handler that falls through to Ok(disp_updated)
Done(m, disp_updated) == [m |-> m, res |-> Ok(disp_updated)]
Fail(m, err) == [m |-> m, res |-> err]

(***************************************************************************)
(* MachineState.  display_buffer is the set of lit pixels <<x, y>>; ram is *)
(* the function from the addresses of the nonzero bytes to those bytes,    *)
(* every other address of 0..RamSize - 1 holding 0.                        *)
(***************************************************************************)
\* ram[a]
Byte(ram, a) == IF a \in DOMAIN ram THEN ram[a] ELSE 0

\* ram with the bytes at the addresses of written replaced by written's
Store(ram, written) ==
    LET value(a) == IF a \in DOMAIN written THEN written[a] ELSE ram[a]
    IN  [a \in {b \in DOMAIN ram \cup DOMAIN written : value(b) # 0} |-> value(a)]

DefaultMachine ==
    [system            |-> "Chip8",
     display_buffer    |-> {},
     ram               |-> <<>>,
     program_counter   |-> ProgramStart,
     index_register    |-> 0,
     var_registers     |-> [r \in 0..15 |-> 0],
     stack             |-> <<>>,
     delay_timer       |-> 0,
     sound_timer       |-> 0,
     previous_keystate |-> 0,
     high_res          |-> FALSE]

new(system) == [DefaultMachine EXCEPT !.system = system]

(***************************************************************************)
(* Fonts.  default_font.rs is not among the sources: the small font is the *)
(* conventional 5-row hexadecimal font, the big font a 10-row font of the  *)
(* same glyphs; only their sizes (0x50 and 0xA0 bytes) come from lib.rs.   *)
(***************************************************************************)
DEFAULT_FONT ==
    << 240, 144, 144, 144, 240,    32,  96,  32,  32, 112,
       240,  16, 240, 128, 240,   240,  16, 240,  16, 240,
       144, 144, 240,  16,  16,   240, 128, 240,  16, 240,
       240, 128, 240, 144, 240,   240,  16,  32,  64,  64,
       240, 144, 240, 144, 240,   240, 144, 240,  16, 240,
       240, 144, 240, 144, 144,   224, 144, 224, 144, 224,
       240, 128, 128, 128, 240,   224, 144, 144, 144, 224,
       240, 128, 240, 128, 240,   240, 128, 240, 128, 128 >>

DEFAULT_BIG_FONT ==
    [i \in 1..160 |-> DEFAULT_FONT[((i - 1) \div 10) * 5 + (((i - 1) % 10) \div 2) + 1]]

\* self.ram[start..start + bytes.len()].copy_from_slice(bytes)
CopyFromSlice(ram, start, bytes) ==
    Store(ram, [a \in start..(start + Len(bytes) - 1) |-> bytes[a - start + 1]])

load_font(m, font) == [m EXCEPT !.ram = CopyFromSlice(@, FontBase, font)]

load_big_font(m, big_font) == [m EXCEPT !.ram = CopyFromSlice(@, BigFontBase, big_font)]

load_default_font(m) ==
    LET m1 == load_font(m, DEFAULT_FONT)
    IN  IF m.system = "SuperChip" THEN load_big_font(m1, DEFAULT_BIG_FONT) ELSE m1

load_program(m, program) == [m EXCEPT !.ram = CopyFromSlice(@, ProgramStart, program)]

tick_timer_Wraps(m) ==
    [m EXCEPT !.delay_timer = (@ - 1) % U8,
              !.sound_timer = (@ - 1) % U8]

tick_timer(m) ==
    [m EXCEPT !.delay_timer = IF @ > 0 THEN @ - 1 ELSE @,
              !.sound_timer = IF @ > 0 THEN @ - 1 ELSE @]

(***************************************************************************)
(* tick: FETCH and DECODE                                                  *)
(***************************************************************************)
\* the fetch indexes ram at program_counter and program_counter + 1
FetchInRange(m) == m.program_counter + 1 < RamSize

Fetch(m) == Byte(m.ram, m.program_counter) * 256 + Byte(m.ram, m.program_counter + 1)

DecodeOp(instruction) == instruction \div 4096
DecodeX(instruction) == (instruction \div 256) % 16
DecodeY(instruction) == (instruction \div 16) % 16
DecodeN(instruction) == instruction % 16
DecodeNN(instruction) == instruction % 256
DecodeNNN(instruction) == instruction % 4096

V(m, r) == m.var_registers[r]

(***************************************************************************)
(* tick: the opcode handlers.  m is the machine after the fetch, that is   *)
(* with program_counter already advanced by 2.                             *)
(***************************************************************************)
Op00E0_NotReported(m) == Done([m EXCEPT !.display_buffer = {}], FALSE)

Op00E0(m) == Done([m EXCEPT !.display_buffer = {}], TRUE)

Op00EE_FallsBackToZero(m) ==
    IF Len(m.stack) > 0
    THEN Done([m EXCEPT !.program_counter = m.stack[Len(m.stack)],
                        !.stack = SubSeq(m.stack, 1, Len(m.stack) - 1)], FALSE)
    ELSE Done([m EXCEPT !.program_counter = 0], FALSE)

Op00EE_PopsOldest(m) ==
    IF Len(m.stack) > 0
    THEN Done([m EXCEPT !.program_counter = m.stack[1],
                        !.stack = SubSeq(m.stack, 2, Len(m.stack))], FALSE)
    ELSE Done([m EXCEPT !.program_counter = ProgramStart], FALSE)

Op00EE(m) ==
    IF Len(m.stack) > 0
    THEN Done([m EXCEPT !.program_counter = m.stack[Len(m.stack)],
                        !.stack = SubSeq(m.stack, 1, Len(m.stack) - 1)], FALSE)
    ELSE Done([m EXCEPT !.program_counter = ProgramStart], FALSE)

Op1nnn(m, nnn) == Done([m EXCEPT !.program_counter = nnn], FALSE)

Op2nnn_PushesCallAddress(m, nnn) ==
    IF Len(m.stack) >= StackCapacity
    THEN Fail(m, StackOverflow)
    ELSE Done([m EXCEPT !.stack = Append(@, m.program_counter - 2),
                        !.program_counter = nnn], FALSE)

Op2nnn_JumpsOnOverflow(m, nnn) ==
    IF Len(m.stack) >= StackCapacity
    THEN Fail([m EXCEPT !.program_counter = nnn], StackOverflow)
    ELSE Done([m EXCEPT !.stack = Append(@, m.program_counter),
                        !.program_counter = nnn], FALSE)

Op2nnn(m, nnn) ==
    IF Len(m.stack) >= StackCapacity
    THEN Fail(m, StackOverflow)
    ELSE Done([m EXCEPT !.stack = Append(@, m.program_counter),
                        !.program_counter = nnn], FALSE)

Skip(m, cond) ==
    Done(IF cond THEN [m EXCEPT !.program_counter = @ + 2] ELSE m, FALSE)

Op3xnn(m, x, nn) == Skip(m, V(m, x) = nn)
Op4xnn(m, x, nn) == Skip(m, V(m, x) # nn)
Op5xy(m, x, y) == Skip(m, V(m, x) = V(m, y))
Op9xy(m, x, y) == Skip(m, V(m, x) # V(m, y))

Op8xy0(m, x, y) == Done([m EXCEPT !.var_registers[x] = V(m, y)], FALSE)

OpBitwise_KeepsFlag(m, x, value) == Done([m EXCEPT !.var_registers[x] = value], FALSE)

\* 8xy1, 8xy2, 8xy3: value is Vx op Vy
OpBitwise(m, x, value) ==
    LET m1 == [m EXCEPT !.var_registers[x] = value]
    IN  Done(IF m.system = "Chip8" THEN [m1 EXCEPT !.var_registers[15] = 0] ELSE m1,
             FALSE)

Op8xy1(m, x, y) == OpBitwise(m, x, BitOr(V(m, x), V(m, y)))
Op8xy2(m, x, y) == OpBitwise(m, x, BitAnd(V(m, x), V(m, y)))
Op8xy3(m, x, y) == OpBitwise(m, x, BitXor(V(m, x), V(m, y)))

Op8xy4_FlagBeforeSum(m, x, y) ==
    LET overflow == IF V(m, x) + V(m, y) > 255 THEN 1 ELSE 0
        m1 == [m EXCEPT !.var_registers[15] = overflow]
    IN  Done([m1 EXCEPT !.var_registers[x] = (V(m1, x) + V(m1, y)) % U8], FALSE)

Op8xy4(m, x, y) ==
    LET overflow == IF V(m, x) + V(m, y) > 255 THEN 1 ELSE 0
    IN  Done([m EXCEPT !.var_registers[x] = (V(m, x) + V(m, y)) % U8,
                       !.var_registers[15] = overflow], FALSE)

Op8xy5_StrictBorrow(m, x, y) ==
    LET borrow == IF V(m, x) > V(m, y) THEN 1 ELSE 0
    IN  Done([m EXCEPT !.var_registers[x] = (V(m, x) - V(m, y)) % U8,
                       !.var_registers[15] = borrow], FALSE)

Op8xy5(m, x, y) ==
    LET borrow == IF V(m, x) >= V(m, y) THEN 1 ELSE 0
    IN  Done([m EXCEPT !.var_registers[x] = (V(m, x) - V(m, y)) % U8,
                       !.var_registers[15] = borrow], FALSE)

Op8xy7(m, x, y) ==
    LET borrow == IF V(m, y) >= V(m, x) THEN 1 ELSE 0
    IN  Done([m EXCEPT !.var_registers[x] = (V(m, y) - V(m, x)) % U8,
                       !.var_registers[15] = borrow], FALSE)

\* the register the shifts read: x on SuperChip, y on Chip8
ShiftSource(m, x, y) == IF m.system = "SuperChip" THEN x ELSE y

Op8xy6(m, x, y) ==
    LET shifted_out == V(m, y) % 2
    IN  Done([m EXCEPT !.var_registers[x] = V(m, ShiftSource(m, x, y)) \div 2,
                       !.var_registers[15] = shifted_out], FALSE)

Op8xyE(m, x, y) ==
    LET shifted_out == V(m, y) \div 128
    IN  Done([m EXCEPT !.var_registers[x] = (V(m, ShiftSource(m, x, y)) * 2) % U8,
                       !.var_registers[15] = shifted_out], FALSE)

Op6xnn(m, x, nn) == Done([m EXCEPT !.var_registers[x] = nn], FALSE)

Op7xnn(m, x, nn) == Done([m EXCEPT !.var_registers[x] = (V(m, x) + nn) % U8], FALSE)

OpAnnn(m, nnn) == Done([m EXCEPT !.index_register = nnn], FALSE)

OpBnnn_AlwaysV0(m, x, nnn) == Done([m EXCEPT !.program_counter = nnn + V(m, 0)], FALSE)

OpBnnn(m, x, nnn) ==
    Done([m EXCEPT !.program_counter =
                       nnn + V(m, IF m.system = "SuperChip" THEN x ELSE 0)], FALSE)

OpCxnn(m, x, nn, random) ==
    Done([m EXCEPT !.var_registers[x] = BitAnd(random, nn)], FALSE)

(***************************************************************************)
(* Dxyn.  Every pixel is visited at most once in a draw, so the nested     *)
(* loops amount to flipping the set of sprite pixels that are on screen.   *)
(***************************************************************************)
SymDiff(a, b) == (a \ b) \cup (b \ a)

DrawHighRes_FlagsOnce(m, xr, yr, n) ==
    LET x == V(m, xr) % DISPLAY_WIDTH
        y == V(m, yr) % DISPLAY_HEIGHT
        sprite16 == (n = 0)
        rows == IF sprite16 THEN 16 ELSE n
        width == IF sprite16 THEN 16 ELSE 8
        drawn == Min(rows, DISPLAY_HEIGHT - y)
        last_address == IF sprite16 THEN m.index_register + 2 * (drawn - 1) + 1
                        ELSE m.index_register + (drawn - 1)
        sprite_row(i) ==
            IF sprite16
            THEN Byte(m.ram, m.index_register + 2 * i) * 256
                 + Byte(m.ram, m.index_register + 2 * i + 1)
            ELSE Byte(m.ram, m.index_register + i)
        pixel(i, j) == Bit(sprite_row(i), width - 1 - j) = 1
        touched(i) == {j \in 0..(width - 1) : x + j < DISPLAY_WIDTH /\ pixel(i, j)}
        collision(i) == \E j \in touched(i) : <<x + j, y + i>> \in m.display_buffer
        flipped == UNION {{<<x + j, y + i>> : j \in touched(i)} : i \in 0..(drawn - 1)}
        vf == IF \E i \in 0..(drawn - 1) : collision(i) THEN 1 ELSE 0
    IN  IF last_address >= RamSize
        THEN Fail(m, Panic)
        ELSE Done([m EXCEPT !.var_registers[15] = vf,
                            !.display_buffer = SymDiff(@, flipped)], TRUE)

\* high_res branch: n = 0 draws a 16 x 16 sprite of two bytes a row
DrawHighRes(m, xr, yr, n) ==
    LET x == V(m, xr) % DISPLAY_WIDTH
        y == V(m, yr) % DISPLAY_HEIGHT
        sprite16 == (n = 0)
        rows == IF sprite16 THEN 16 ELSE n
        width == IF sprite16 THEN 16 ELSE 8
        \* rows i with y + i < DISPLAY_HEIGHT are drawn, the loop breaks at the first other
        drawn == Min(rows, DISPLAY_HEIGHT - y)
        clipped == rows - drawn
        last_address == IF sprite16 THEN m.index_register + 2 * (drawn - 1) + 1
                        ELSE m.index_register + (drawn - 1)
        sprite_row(i) ==
            IF sprite16
            THEN Byte(m.ram, m.index_register + 2 * i) * 256
                 + Byte(m.ram, m.index_register + 2 * i + 1)
            ELSE Byte(m.ram, m.index_register + i)
        pixel(i, j) == Bit(sprite_row(i), width - 1 - j) = 1
        touched(i) == {j \in 0..(width - 1) : x + j < DISPLAY_WIDTH /\ pixel(i, j)}
        collision(i) == \E j \in touched(i) : <<x + j, y + i>> \in m.display_buffer
        flipped == UNION {{<<x + j, y + i>> : j \in touched(i)} : i \in 0..(drawn - 1)}
        vf == clipped + Cardinality({i \in 0..(drawn - 1) : collision(i)})
    IN  IF last_address >= RamSize
        THEN Fail(m, Panic)
        ELSE Done([m EXCEPT !.var_registers[15] = vf,
                            !.display_buffer = SymDiff(@, flipped)], TRUE)

DrawLowRes_WrapsColumns(m, xr, yr, n) ==
    LET x == V(m, xr) % (DISPLAY_WIDTH \div 2)
        y == V(m, yr) % (DISPLAY_HEIGHT \div 2)
        drawn == Min(n, (DISPLAY_HEIGHT \div 2) - y)
        sprite_row(i) == Byte(m.ram, m.index_register + i)
        column(j) == (x + j) % (DISPLAY_WIDTH \div 2)
        touched(i) == {j \in 0..7 : Bit(sprite_row(i), 7 - j) = 1}
        collision == \E i \in 0..(drawn - 1) : \E j \in touched(i) :
                         <<2 * column(j), 2 * (y + i)>> \in m.display_buffer
        flipped == UNION {UNION {{<<2 * column(j) + dx, 2 * (y + i) + dy>> :
                                     dx \in 0..1, dy \in 0..1} : j \in touched(i)} :
                          i \in 0..(drawn - 1)}
    IN  IF drawn > 0 /\ m.index_register + (drawn - 1) >= RamSize
        THEN Fail(m, Panic)
        ELSE Done([m EXCEPT !.var_registers[15] = IF collision THEN 1 ELSE 0,
                            !.display_buffer = SymDiff(@, flipped)], TRUE)

\* low-resolution branch: a logical pixel is a 2 x 2 block of the buffer
DrawLowRes(m, xr, yr, n) ==
    LET x == V(m, xr) % (DISPLAY_WIDTH \div 2)
        y == V(m, yr) % (DISPLAY_HEIGHT \div 2)
        \* rows i with 2 * (y + i) < DISPLAY_HEIGHT are drawn
        drawn == Min(n, (DISPLAY_HEIGHT \div 2) - y)
        sprite_row(i) == Byte(m.ram, m.index_register + i)
        touched(i) == {j \in 0..7 : 2 * (x + j) < DISPLAY_WIDTH
                                     /\ Bit(sprite_row(i), 7 - j) = 1}
        collision == \E i \in 0..(drawn - 1) : \E j \in touched(i) :
                         <<2 * (x + j), 2 * (y + i)>> \in m.display_buffer
        flipped == UNION {UNION {{<<2 * (x + j) + dx, 2 * (y + i) + dy>> :
                                     dx \in 0..1, dy \in 0..1} : j \in touched(i)} :
                          i \in 0..(drawn - 1)}
    IN  IF drawn > 0 /\ m.index_register + (drawn - 1) >= RamSize
        THEN Fail(m, Panic)
        ELSE Done([m EXCEPT !.var_registers[15] = IF collision THEN 1 ELSE 0,
                            !.display_buffer = SymDiff(@, flipped)], TRUE)

OpDxyn_BySystem(m, x, y, n) ==
    IF m.system = "SuperChip" THEN DrawHighRes(m, x, y, n) ELSE DrawLowRes(m, x, y, n)

OpDxyn(m, x, y, n) ==
    IF m.high_res THEN DrawHighRes(m, x, y, n) ELSE DrawLowRes(m, x, y, n)

KeyHeld(held_keys, key) == Bit(held_keys, key) = 1

OpEx9E(m, x, held_keys) == Skip(m, KeyHeld(held_keys, V(m, x) % 16))
OpExA1(m, x, held_keys) == Skip(m, ~KeyHeld(held_keys, V(m, x) % 16))

OpFx07(m, x) == Done([m EXCEPT !.var_registers[x] = m.delay_timer], FALSE)
OpFx15(m, x) == Done([m EXCEPT !.delay_timer = V(m, x)], FALSE)
OpFx18(m, x) == Done([m EXCEPT !.sound_timer = V(m, x)], FALSE)

\* index_register += Vx on a u16
OpFx1E(m, x, checks) ==
    IF m.index_register + V(m, x) >= U16 /\ checks
    THEN Fail(m, Panic)
    ELSE Done([m EXCEPT !.index_register = (@ + V(m, x)) % U16], FALSE)

LowestSetBit_CountsFromOne(key_diff) ==
    1 + CHOOSE i \in 0..15 : Bit(key_diff, i) = 1 /\ \A k \in 0..(i - 1) : Bit(key_diff, k) = 0

\* the first i in 0..16 with bit i of key_diff set
LowestSetBit(key_diff) ==
    CHOOSE i \in 0..15 : Bit(key_diff, i) = 1 /\ \A k \in 0..(i - 1) : Bit(key_diff, k) = 0

OpFx0A_NoRollback(m, x, held_keys) ==
    LET current_keystate == held_keys
    IN  IF current_keystate < m.previous_keystate
        THEN LET key_diff == m.previous_keystate - current_keystate
             IN  Done([m EXCEPT !.var_registers[x] = LowestSetBit(key_diff),
                                !.previous_keystate = 0], FALSE)
        ELSE Done([m EXCEPT !.previous_keystate = current_keystate], FALSE)

OpFx0A(m, x, held_keys) ==
    LET current_keystate == held_keys
    IN  IF current_keystate < m.previous_keystate
        THEN LET key_diff == m.previous_keystate - current_keystate
             IN  Done([m EXCEPT !.var_registers[x] = LowestSetBit(key_diff),
                                !.previous_keystate = 0], FALSE)
        ELSE Done([m EXCEPT !.previous_keystate = current_keystate,
                            !.program_counter = @ - 2], FALSE)

OpFx29_BigFontOnSuperChip(m, x) ==
    IF m.system = "SuperChip"
    THEN Done([m EXCEPT !.index_register = BigFontBase + (V(m, x) % 16) * 10], FALSE)
    ELSE Done([m EXCEPT !.index_register = FontBase + (V(m, x) % 16) * 5], FALSE)

OpFx29(m, x) == Done([m EXCEPT !.index_register = FontBase + (V(m, x) % 16) * 5], FALSE)

OpFx33_UnitsFirst(m, x) ==
    IF m.index_register + 2 >= RamSize
    THEN Fail(m, Panic)
    ELSE Done([m EXCEPT !.ram = Store(@,
                  (m.index_register + 0 :> V(m, x) % 10)
                  @@ (m.index_register + 1 :> (V(m, x) \div 10) % 10)
                  @@ (m.index_register + 2 :> (V(m, x) \div 100) % 10))], FALSE)

OpFx33(m, x) ==
    IF m.index_register + 2 >= RamSize
    THEN Fail(m, Panic)
    ELSE Done([m EXCEPT !.ram = Store(@,
                  (m.index_register + 2 :> V(m, x) % 10)
                  @@ (m.index_register + 1 :> (V(m, x) \div 10) % 10)
                  @@ (m.index_register + 0 :> (V(m, x) \div 100) % 10))], FALSE)

AfterDumpLoad_OnBothSystems(m, x) == [m EXCEPT !.index_register = @ + x + 1]

\* Fx55 and Fx65 advance index_register past the registers on Chip8 only
AfterDumpLoad(m, x) ==
    IF m.system = "Chip8" THEN [m EXCEPT !.index_register = @ + x + 1] ELSE m

OpFx55(m, x) ==
    IF m.index_register + x >= RamSize
    THEN Fail(m, Panic)
    ELSE Done(AfterDumpLoad(
                  [m EXCEPT !.ram = Store(@,
                       [a \in m.index_register..(m.index_register + x) |->
                           V(m, a - m.index_register)])], x), FALSE)

OpFx65_LoadsBackwards(m, x) ==
    IF m.index_register + x >= RamSize
    THEN Fail(m, Panic)
    ELSE Done(AfterDumpLoad(
                  [m EXCEPT !.var_registers = [r \in 0..15 |->
                       IF r <= x THEN Byte(m.ram, m.index_register + x - r) ELSE @[r]]], x), FALSE)

OpFx65(m, x) ==
    IF m.index_register + x >= RamSize
    THEN Fail(m, Panic)
    ELSE Done(AfterDumpLoad(
                  [m EXCEPT !.var_registers = [r \in 0..15 |->
                       IF r <= x THEN Byte(m.ram, m.index_register + r) ELSE @[r]]], x), FALSE)

(***************************************************************************)
(* The SuperChip-only instructions of the default arm                      *)
(***************************************************************************)
\* 00FB: copy_within(0..DISPLAY_WIDTH - amount, amount), then clear columns 0..amount
ScrollRight(display_buffer, amount) ==
    {<<p[1] + amount, p[2]>> : p \in {q \in display_buffer : q[1] < DISPLAY_WIDTH - amount}}

\* 00FC: copy_within(amount..DISPLAY_WIDTH, 0), then clear the last amount columns
ScrollLeft(display_buffer, amount) ==
    {<<p[1] - amount, p[2]>> : p \in {q \in display_buffer : q[1] >= amount}}

\* 00CN: in every column copy_within(0..DISPLAY_HEIGHT - n, n), then clear rows 0..n
ScrollDown(display_buffer, n) ==
    {<<p[1], p[2] + n>> : p \in {q \in display_buffer : q[2] < DISPLAY_HEIGHT - n}}

Op00FB_AlwaysFour(m) == Done([m EXCEPT !.display_buffer = ScrollRight(@, 4)], FALSE)

Op00FB(m) ==
    Done([m EXCEPT !.display_buffer = ScrollRight(@, IF m.high_res THEN 4 ELSE 8)], FALSE)

Op00FC(m) ==
    Done([m EXCEPT !.display_buffer = ScrollLeft(@, IF m.high_res THEN 4 ELSE 8)], FALSE)

Op00CN_SingleRows(m, n) == Done([m EXCEPT !.display_buffer = ScrollDown(@, n)], FALSE)

Op00CN(m, n) ==
    Done([m EXCEPT !.display_buffer = ScrollDown(@, IF m.high_res THEN n ELSE n * 2)],
         FALSE)

OpFx30(m, x) ==
    Done([m EXCEPT !.index_register = BigFontBase + (V(m, x) % 16) * 10], FALSE)

\* todo!("Store user flags") and todo!("Read user flags")
OpFx75(m) == Fail(m, Panic)
OpFx85(m) == Fail(m, Panic)

SuperChipOnly_RunsPastExit(m, instruction) ==
    LET x == DecodeX(instruction)
        n == DecodeN(instruction)
    IN  CASE instruction = 253 -> Done(m, FALSE)
          [] instruction = 254 -> Done([m EXCEPT !.high_res = FALSE], FALSE)
          [] instruction = 255 -> Done([m EXCEPT !.high_res = TRUE], FALSE)
          [] DecodeOp(instruction) = 15 /\ DecodeNN(instruction) = 117 -> OpFx75(m)
          [] DecodeOp(instruction) = 15 /\ DecodeNN(instruction) = 133 -> OpFx85(m)
          [] instruction = 251 -> Op00FB(m)
          [] instruction = 252 -> Op00FC(m)
          [] instruction \div 16 = 12 -> Op00CN(m, n)
          [] DecodeOp(instruction) = 15 /\ DecodeNN(instruction) = 48 -> OpFx30(m, x)
          [] OTHER -> Fail(m, IllegalInstruction(instruction))

SuperChipOnly(m, instruction) ==
    LET x == DecodeX(instruction)
        n == DecodeN(instruction)
    IN  CASE instruction = 253 -> Fail(m, ProgramExited)
          [] instruction = 254 -> Done([m EXCEPT !.high_res = FALSE], FALSE)
          [] instruction = 255 -> Done([m EXCEPT !.high_res = TRUE], FALSE)
          [] DecodeOp(instruction) = 15 /\ DecodeNN(instruction) = 117 -> OpFx75(m)
          [] DecodeOp(instruction) = 15 /\ DecodeNN(instruction) = 133 -> OpFx85(m)
          [] instruction = 251 -> Op00FB(m)
          [] instruction = 252 -> Op00FC(m)
          [] instruction \div 16 = 12 -> Op00CN(m, n)
          [] DecodeOp(instruction) = 15 /\ DecodeNN(instruction) = 48 -> OpFx30(m, x)
          [] OTHER -> Fail(m, IllegalInstruction(instruction))

Unmatched_CarriesAddressBits(m, instruction) ==
    IF m.system = "SuperChip"
    THEN SuperChipOnly(m, instruction)
    ELSE Fail(m, IllegalInstruction(DecodeNNN(instruction)))

Unmatched_OnAnySystem(m, instruction) == SuperChipOnly(m, instruction)

Unmatched(m, instruction) ==
    IF m.system = "SuperChip"
    THEN SuperChipOnly(m, instruction)
    ELSE Fail(m, IllegalInstruction(instruction))

(***************************************************************************)
(* tick: the match on (instruction >> 12, nn, n)                           *)
(***************************************************************************)
Execute(m, instruction, held_keys, random, checks) ==
    LET op == DecodeOp(instruction)
        x == DecodeX(instruction)
        y == DecodeY(instruction)
        n == DecodeN(instruction)
        nn == DecodeNN(instruction)
        nnn == DecodeNNN(instruction)
    IN  CASE op = 0 /\ n = 0 /\ y = 14 -> Op00E0(m)
          [] op = 0 /\ n = 14 /\ y = 14 -> Op00EE(m)
          [] op = 1 -> Op1nnn(m, nnn)
          [] op = 2 -> Op2nnn(m, nnn)
          [] op = 3 -> Op3xnn(m, x, nn)
          [] op = 4 -> Op4xnn(m, x, nn)
          [] op = 5 -> Op5xy(m, x, y)
          [] op = 9 -> Op9xy(m, x, y)
          [] op = 8 /\ n = 0 -> Op8xy0(m, x, y)
          [] op = 8 /\ n = 1 -> Op8xy1(m, x, y)
          [] op = 8 /\ n = 2 -> Op8xy2(m, x, y)
          [] op = 8 /\ n = 3 -> Op8xy3(m, x, y)
          [] op = 8 /\ n = 4 -> Op8xy4(m, x, y)
          [] op = 8 /\ n = 5 -> Op8xy5(m, x, y)
          [] op = 8 /\ n = 7 -> Op8xy7(m, x, y)
          [] op = 8 /\ n = 6 -> Op8xy6(m, x, y)
          [] op = 8 /\ n = 14 -> Op8xyE(m, x, y)
          [] op = 6 -> Op6xnn(m, x, nn)
          [] op = 7 -> Op7xnn(m, x, nn)
          [] op = 10 -> OpAnnn(m, nnn)
          [] op = 11 -> OpBnnn(m, x, nnn)
          [] op = 12 -> OpCxnn(m, x, nn, random)
          [] op = 13 -> OpDxyn(m, x, y, n)
          [] op = 14 /\ nn = 158 -> OpEx9E(m, x, held_keys)
          [] op = 14 /\ nn = 161 -> OpExA1(m, x, held_keys)
          [] op = 15 /\ nn = 7 -> OpFx07(m, x)
          [] op = 15 /\ nn = 21 -> OpFx15(m, x)
          [] op = 15 /\ nn = 24 -> OpFx18(m, x)
          [] op = 15 /\ nn = 30 -> OpFx1E(m, x, checks)
          [] op = 15 /\ nn = 10 -> OpFx0A(m, x, held_keys)
          [] op = 15 /\ nn = 41 -> OpFx29(m, x)
          [] op = 15 /\ nn = 51 -> OpFx33(m, x)
          [] op = 15 /\ nn = 85 -> OpFx55(m, x)
          [] op = 15 /\ nn = 101 -> OpFx65(m, x)
          [] OTHER -> Unmatched(m, instruction)

\* the instructions whose handler calls held_keys() and random()
CallsHeldKeys(instruction) ==
    \/ DecodeOp(instruction) = 14 /\ DecodeNN(instruction) \in {158, 161}
    \/ DecodeOp(instruction) = 15 /\ DecodeNN(instruction) = 10

CallsRandom(instruction) == DecodeOp(instruction) = 12

tick_ExecutesBeforeAdvance(m, held_keys, random, checks) ==
    IF ~FetchInRange(m)
    THEN Fail(m, Panic)
    ELSE LET r == Execute(m, Fetch(m), held_keys, random, checks)
         IN  IF r.res = Panic THEN Fail(m, Panic) ELSE r

\* a panic leaves no machine to observe: the model keeps the state of the call's start
tick(m, held_keys, random, checks) ==
    IF ~FetchInRange(m)
    THEN Fail(m, Panic)
    ELSE LET r == Execute([m EXCEPT !.program_counter = @ + 2], Fetch(m),
                          held_keys, random, checks)
         IN  IF r.res = Panic THEN Fail(m, Panic) ELSE r

(***************************************************************************)
(* The programs the host may load.  W(a, b, c, d) is the instruction word  *)
(* with hexadecimal digits a b c d; a program is a sequence of words,      *)
(* stored big-endian from ProgramStart.                                    *)
(***************************************************************************)
W(a, b, c, d) == a * 4096 + b * 256 + c * 16 + d

\* address of the k-th word (from 0) of a loaded program
At(k) == ProgramStart + 2 * k

\* 1nnn jumping to itself at word k
Park(k) == 4096 + At(k)

RECURSIVE WordsToBytes(_)
WordsToBytes(ws) ==
    IF ws = <<>> THEN <<>>
    ELSE <<Head(ws) \div 256, Head(ws) % 256>> \o WordsToBytes(Tail(ws))

\* 00E0 and a jump back to 0x200
ClearJump == <<W(0, 0, 14, 0), W(1, 2, 0, 0)>>

\* 17 calls in a row, each of the instruction after it, then a parking jump
CallChain == [k \in 1..17 |-> 8192 + At(k)] \o <<Park(17)>>

\* a call of itself: the same call 17 times in a row
CallSelf == <<W(2, 2, 0, 0), Park(1)>>

\* 00EE on the empty stack; a call and two returns
ReturnEmpty == <<W(0, 0, 14, 14)>>
CallReturn == <<W(2, 2, 0, 4), W(0, 0, 14, 14), W(0, 0, 14, 14), Park(3)>>

\* a routine that calls two others, the first of which calls the second
Nested ==
    <<8192 + At(2), Park(1),
      8192 + At(5), 8192 + At(7), W(0, 0, 14, 14),
      8192 + At(7), W(0, 0, 14, 14),
      W(0, 0, 14, 14)>>

\* programs that leave the 4 KiB of ram
JumpEnd == <<W(1, 15, 15, 14)>>
JumpLast == <<W(1, 15, 15, 15)>>
JumpOffset == <<W(6, 0, 15, 15), W(6, 15, 15, 15), W(11, 15, 15, 15)>>
BcdEnd == <<W(10, 15, 15, 14), W(15, 0, 3, 3), Park(2)>>
DumpEnd == <<W(10, 15, 15, 15), W(15, 1, 5, 5), Park(2)>>
LoadEnd == <<W(10, 15, 15, 15), W(15, 1, 6, 5), Park(2)>>
DrawEnd == <<W(10, 15, 15, 15), W(13, 0, 1, 2), Park(2)>>
\* index_register += 0x80 until the u16 overflows
IndexOverflow == <<W(6, 0, 8, 0), W(15, 0, 1, 14), W(1, 2, 0, 2)>>

\* one instruction word, then parking jumps where it falls through or skips to
Single(w) == <<w, Park(1), Park(2)>>

SingleWords ==
    (0..255)
    \cup {W(0, x, 14, n) : x \in {1, 15}, n \in {0, 14}}
    \cup {W(0, 1, 2, 3), W(0, 15, 15, 13), W(0, 1, 15, 15), W(0, 2, 12, 1)}
    \cup {W(op, 0, 1, n) : op \in {5, 8, 9}, n \in 0..15}
    \cup {W(14, 0, c, d) : c \in 0..15, d \in 0..15}
    \cup {W(15, 0, c, d) : c \in 0..15, d \in 0..15}
    \cup {W(15, x, c, d) : x \in {1, 15}, c \in {0, 3, 7, 8}, d \in {0, 5, 10}}
    \cup {W(1, 2, 0, 2), W(2, 2, 0, 4), W(3, 0, 0, 0), W(3, 0, 0, 1), W(4, 0, 0, 0),
          W(4, 0, 0, 1), W(6, 1, 2, 3), W(7, 1, 15, 15), W(10, 1, 2, 3), W(11, 2, 0, 2),
          W(12, 1, 15, 15), W(13, 0, 1, 5)}

\* V0 and V1 random, then one instruction on them
OnRegisters(w) ==
    <<W(12, 0, 15, 15), W(12, 1, 15, 15), w, Park(3), Park(4)>>

RegisterWords ==
    {W(8, x, y, n) : x \in {0, 1}, y \in {0, 1, 15}, n \in {6, 14}}
    \cup {W(8, 0, y, n) : y \in {0, 1}, n \in {1, 2, 3, 4, 5, 7}}
    \cup {W(11, 1, 12, 0)}

\* V0 and VF random, then one instruction on them
OnFlag(w) ==
    <<W(12, 0, 15, 15), W(12, 15, 15, 15), w, Park(3), Park(4)>>

FlagWords ==
    {W(8, x, y, n) : x \in {0, 15}, y \in {0, 15}, n \in {1, 2, 3, 4, 5, 7}}

\* V0 and V1 random, dumped at 0x300 by Fx55, cleared, loaded back by Fx65
RoundTrip(x) ==
    <<W(12, 0, 15, 15), W(12, 1, 15, 15), W(10, 3, 0, 0), W(15, x, 5, 5),
      W(6, 0, 0, 0), W(6, 1, 0, 0), W(10, 3, 0, 0), W(15, x, 6, 5), Park(8)>>

\* V0 random, its decimal digits written into the font at 0x052
Bcd == <<W(12, 0, 15, 15), W(10, 0, 5, 2), W(15, 0, 3, 3), Park(3)>>

\* delay_timer = 2, sound_timer = 1
Timers ==
    <<W(6, 0, 0, 2), W(15, 0, 1, 5), W(6, 0, 0, 1), W(15, 0, 1, 8), Park(4)>>

\* sprite rows, two bytes a word
SpriteData ==
    <<W(15, 15, 8, 1), W(0, 0, 1, 8), W(8, 0, 0, 1), W(15, 15, 15, 15),
      W(0, 0, 0, 0), W(0, 1, 0, 1), W(8, 0, 8, 0), W(7, 15, 15, 14),
      W(15, 0, 0, 15), W(0, 0, 0, 1), W(8, 0, 0, 0), W(1, 2, 3, 4),
      W(0, 0, 15, 15), W(15, 15, 0, 0), W(10, 10, 10, 10), W(5, 5, 5, 5)>>

\* first: 00FF or 00FE; V0, V1 random; index_register at the sprite or at an
\* empty one; the draw three times, the scrolls, the clear
Drawing(first, sprite, draw) ==
    <<first, W(12, 0, 15, 15), W(12, 1, 15, 15), 40960 + sprite, draw, draw, draw,
      W(0, 0, 15, 11), W(0, 0, 15, 12), W(0, 0, 12, 3), W(0, 0, 14, 0), W(0, 0, 14, 0),
      Park(12)>> \o SpriteData

DrawWords == {W(13, 0, 1, 2), W(13, 0, 1, 0), W(13, 1, 0, 15), W(13, 0, 0, 1)}

Programs ==
    {ClearJump, CallChain, CallSelf, ReturnEmpty, CallReturn, JumpEnd, JumpLast,
     JumpOffset, BcdEnd, DumpEnd, LoadEnd, DrawEnd, IndexOverflow, Bcd, Timers,
     Nested}
    \cup {Single(w) : w \in SingleWords}
    \cup {OnRegisters(w) : w \in RegisterWords}
    \cup {OnFlag(w) : w \in FlagWords}
    \cup {RoundTrip(x) : x \in {0, 1, 15}}
    \cup {Drawing(first, sprite, draw) : first \in {W(0, 0, 15, 15), W(0, 0, 15, 14)},
                                         sprite \in {At(13), At(17)},
                                         draw \in DrawWords}

(***************************************************************************)
(* The state machine: the host constructs the machine, loads the font and  *)
(* a program, then calls tick and tick_timer in any order.  before is the  *)
(* machine before the last call, outcome what the last tick returned, call *)
(* the last call and what its callbacks returned.                          *)
(***************************************************************************)
Call(op, held_keys, random) == [op |-> op, held_keys |-> held_keys, random |-> random]

\* the desktop host before its main loop: no key held, no event pending
HostStart ==
    [loc |-> "sleep", held_keys |-> 0, events |-> <<>>,
     latest |-> [i \in 0..(NumKeys - 1) |-> "none"],
     exit |-> "running", failed |-> FALSE, loops |-> 0, arrived |-> 0]

Init ==
    /\ host = HostStart
    /\ frames = <<>>
    /\ overflow_checks \in BOOLEAN
    /\ \E system \in EmulationSystem : machine = new(system)
    /\ before = machine
    /\ outcome = NoResult
    /\ call = Call("new", NotCalled, NotCalled)

LoadDefaultFont ==
    /\ call.op = "new"
    /\ machine' = load_default_font(machine)
    /\ before' = machine
    /\ call' = Call("load_default_font", NotCalled, NotCalled)
    /\ UNCHANGED <<outcome, overflow_checks, host, frames>>

LoadProgram ==
    /\ call.op = "load_default_font"
    /\ \E program \in Programs :
           /\ ProgramStart + 2 * Len(program) <= RamSize
           /\ machine' = load_program(machine, WordsToBytes(program))
    /\ before' = machine
    /\ call' = Call("load_program", NotCalled, NotCalled)
    /\ UNCHANGED <<outcome, overflow_checks, host, frames>>

Running == call.op \in {"load_program", "tick", "tick_timer"} /\ outcome # Panic

TickTimer ==
    /\ Running
    /\ machine' = tick_timer(machine)
    /\ before' = machine
    /\ call' = Call("tick_timer", NotCalled, NotCalled)
    /\ UNCHANGED <<outcome, overflow_checks, host, frames>>

\* the calls that have not returned yet: for each, where its 2nnn was and the
\* stack it found.  A 2nnn that succeeds opens a frame, a 00EE closes the last.
Calls(instruction) == DecodeOp(instruction) = 2

Returns(instruction) == DecodeOp(instruction) = 0 /\ DecodeNN(instruction) = 238

Frame(m) == [address |-> m.program_counter, stack |-> m.stack]

Framed(fs, m, res) ==
    CASE ~FetchInRange(m) \/ res.kind # "Ok" -> fs
      [] Calls(Fetch(m)) -> Append(fs, Frame(m))
      [] Returns(Fetch(m)) /\ fs # <<>> -> SubSeq(fs, 1, Len(fs) - 1)
      [] OTHER -> fs

\* the values a callback may return in this call: none where tick does not call it
Returned(called, values) == IF called THEN values ELSE {NotCalled}

Tick ==
    /\ Running
    /\ LET polled == FetchInRange(machine) /\ CallsHeldKeys(Fetch(machine))
           drawn == FetchInRange(machine) /\ CallsRandom(Fetch(machine))
       IN  \E held_keys \in Returned(polled, KeyMasks),
              random \in Returned(drawn, RandomBytes) :
               LET r == tick(machine, held_keys, random, overflow_checks)
               IN  /\ machine' = r.m
                   /\ outcome' = r.res
                   /\ call' = Call("tick", held_keys, random)
                   /\ frames' = Framed(frames, machine, r.res)
    /\ before' = machine
    /\ UNCHANGED <<overflow_checks, host>>

Next == LoadDefaultFont \/ LoadProgram \/ Tick \/ TickTimer

Spec == Init /\ [][Next]_vars

(***************************************************************************)
(* The desktop host.  The main loop sleeps to the next 60 Hz period, polls *)
(* the pending events and runs execution_loop; the event watch runs        *)
(* execution_loop on a window-exposed event, at any point of the main      *)
(* loop, and reports its error by a custom event.  execution_loop holds    *)
(* the lock of the machine from start to end, so it is one step.  host     *)
(* holds the position of the main loop, the key mask, the pending events,  *)
(* how the host ended, and for the properties the last event handled for   *)
(* each key, whether an execution_loop has returned an error, and the      *)
(* counts of the frames run and of the events arrived.                     *)
(***************************************************************************)
INSTR_PER_FRAME == 10

RECURSIVE RunTicks(_, _, _, _, _)
\* for _ in 0..=INSTR_PER_FRAME { machine_state.tick(...)?; }
RunTicks(m, count, held_keys, random, checks) ==
    IF count = 0
    THEN Done(m, FALSE)
    ELSE LET r == tick(m, held_keys, random, checks)
         IN  IF r.res.kind = "Ok"
             THEN RunTicks(r.m, count - 1, held_keys, random, checks)
             ELSE r

execution_loop(m, held_keys, random, checks) ==
    RunTicks(tick_timer(m), INSTR_PER_FRAME + 1, held_keys, random, checks)

\* the tick returned Err, which execution_loop hands on
ReturnedError(res) == res.kind \in {"StackOverflow", "IllegalInstruction", "ProgramExited"}

KeyEvent(kind, key) == [kind |-> kind, key |-> key]

ExecutionErrorEvent == KeyEvent("ExecutionError", NotCalled)

\* programs that fail at once, in the second frame, or never
HostPrograms == {Single(0), Single(253), CallSelf, <<Park(0)>>}

HostInit ==
    /\ host = HostStart
    /\ frames = <<>>
    /\ overflow_checks \in BOOLEAN
    /\ \E system \in EmulationSystem, program \in HostPrograms :
           machine = load_program(load_default_font(new(system)), WordsToBytes(program))
    /\ before = machine
    /\ outcome = NoResult
    /\ call = Call("load_program", NotCalled, NotCalled)

\* the window system queues a key press, a key release or the quit request
OsEvent ==
    /\ host.exit = "running"
    /\ host.arrived < MaxEvents
    /\ \E event \in {KeyEvent(kind, key) : kind \in {"KeyDown", "KeyUp"},
                                            key \in 0..(NumKeys - 1)}
                     \cup {KeyEvent("Quit", NotCalled)} :
           host' = [host EXCEPT !.events = Append(@, event), !.arrived = @ + 1]
    /\ UNCHANGED <<machine, before, outcome, call, overflow_checks, frames>>

\* the period has passed: the main loop goes on to poll_iter
MainWake ==
    /\ host.exit = "running"
    /\ host.loc = "sleep"
    /\ host' = [host EXCEPT !.loc = "poll"]
    /\ UNCHANGED <<machine, before, outcome, call, overflow_checks, frames>>

\* held_keys -= 0b1 << i on a u16: the build panics or wraps when the bit is clear
KeyUpMask(held_keys, key) ==
    IF held_keys >= Pow2(key) THEN held_keys - Pow2(key) ELSE held_keys - Pow2(key) + U16

\* the body of the for loop over poll_iter, for the first pending event
MainPoll ==
    /\ host.exit = "running"
    /\ host.loc = "poll"
    /\ host.events # <<>>
    /\ LET event == Head(host.events)
           polled == [host EXCEPT !.events = Tail(@)]
       IN  host' =
             CASE event.kind = "Quit" -> [polled EXCEPT !.exit = "quit"]
               [] event.kind = "KeyDown" ->
                    [polled EXCEPT !.held_keys = BitOr(@, Pow2(event.key)),
                                   !.latest[event.key] = "down"]
               [] event.kind = "KeyUp" ->
                    IF host.held_keys < Pow2(event.key) /\ overflow_checks
                    THEN [polled EXCEPT !.exit = "overflow", !.latest[event.key] = "up"]
                    ELSE [polled EXCEPT !.held_keys = KeyUpMask(@, event.key),
                                        !.latest[event.key] = "up"]
               [] event.kind = "ExecutionError" -> [polled EXCEPT !.exit = "error"]
    /\ UNCHANGED <<machine, before, outcome, call, overflow_checks, frames>>

\* poll_iter has no more event: the main loop goes on to execution_loop
MainPollDone ==
    /\ host.exit = "running"
    /\ host.loc = "poll"
    /\ host.events = <<>>
    /\ host' = [host EXCEPT !.loc = "run"]
    /\ UNCHANGED <<machine, before, outcome, call, overflow_checks, frames>>

\* a frame: execution_loop on the machine, and what is kept for the properties
RunFrame(random) ==
    LET r == execution_loop(machine, host.held_keys, random, overflow_checks)
    IN  /\ machine' = r.m
        /\ outcome' = r.res
        /\ before' = machine
        /\ call' = Call("execution_loop", host.held_keys, random)
        /\ UNCHANGED <<overflow_checks, frames>>

\* execution_loop()? at the end of the main loop
AfterMainRun(res) ==
    [host EXCEPT !.loops = @ + 1,
                 !.loc = "sleep",
                 !.failed = @ \/ ReturnedError(res),
                 !.exit = CASE res = Panic -> "panic"
                            [] ReturnedError(res) -> "error"
                            [] OTHER -> @]

MainRun ==
    /\ host.exit = "running"
    /\ host.loc = "run"
    /\ host.loops < MaxLoops
    /\ \E random \in RandomBytes :
           /\ RunFrame(random)
           /\ host' = AfterMainRun(outcome')

\* the event watch on a window-exposed event more than a period after prev_tick
AfterWatch(res) ==
    [host EXCEPT !.loops = @ + 1,
                 !.arrived = @ + 1,
                 !.failed = @ \/ ReturnedError(res),
                 !.events = IF ReturnedError(res) THEN Append(@, ExecutionErrorEvent) ELSE @,
                 !.exit = IF res = Panic THEN "panic" ELSE @]

WatchExposed ==
    /\ host.exit = "running"
    /\ host.loops < MaxLoops
    /\ host.arrived < MaxEvents
    /\ \E random \in RandomBytes :
           /\ RunFrame(random)
           /\ host' = AfterWatch(outcome')

HostNext == OsEvent \/ MainWake \/ MainPoll \/ MainPollDone \/ MainRun \/ WatchExposed

HostSpec == HostInit /\ [][HostNext]_vars

(***************************************************************************)
(* Vocabulary of the properties                                            *)
(***************************************************************************)
\* the step is a call of tick that fetches the instruction word w
Executes(w) == call'.op = "tick" /\ FetchInRange(machine) /\ Fetch(machine) = w

\* the step is a call of tick that fetches a word of the set ws
ExecutesOneOf(ws) == call'.op = "tick" /\ FetchInRange(machine) /\ Fetch(machine) \in ws

\* the machine as the host leaves it after loading the font and the program
Loaded(system, program) ==
    load_program(load_default_font(new(system)), WordsToBytes(program))

(***************************************************************************)
(* C1: in every reachable state program_counter is even and lies in        *)
(* [0, 4096).                                                              *)
(***************************************************************************)
C1_ProgramCounterEvenInRange ==
    /\ machine.program_counter % 2 = 0
    /\ machine.program_counter >= 0
    /\ machine.program_counter < 4096

(***************************************************************************)
(* C2: no call of tick aborts: it returns Ok or one of the typed errors.   *)
(***************************************************************************)
C2_TickNeverAborts == outcome.kind \in {"None", "Ok", "StackOverflow",
                                        "IllegalInstruction", "ProgramExited"}

(***************************************************************************)
(* C3: the call stack never holds more than 16 return addresses; a 2nnn    *)
(* on a stack of fewer than 16 succeeds, pushes the address of the         *)
(* instruction after the call on top and jumps to nnn; a 2nnn on a stack   *)
(* of 16 fails with StackOverflow.  So 16 calls in a row from the empty    *)
(* stack succeed, leaving their return addresses in call order, and the    *)
(* 17th fails.                                                             *)
(***************************************************************************)
C3_CallStackBounded ==
    /\ [](Len(machine.stack) <= 16)
    /\ [][ExecutesOneOf(8192..12287) =>
            IF Len(machine.stack) < 16
            THEN /\ outcome' = Ok(FALSE)
                 /\ machine'.stack = Append(machine.stack, machine.program_counter + 2)
                 /\ machine'.program_counter = Fetch(machine) % 4096
            ELSE /\ outcome' = StackOverflow
                 /\ machine'.stack = machine.stack]_vars

\* the 17th call of CallChain has failed on the 16 return addresses of the others
C3_Witness ==
    /\ outcome = StackOverflow
    /\ call.op = "tick"
    /\ machine.stack = [k \in 1..16 |-> 512 + 2 * k]
    /\ before.stack = machine.stack
    /\ Fetch(before) \div 4096 = 2

(***************************************************************************)
(* C4: 00EE on the empty call stack sets program_counter to 0x200, leaves  *)
(* the stack empty and returns Ok, on Chip8 and on SuperChip.              *)
(***************************************************************************)
C4_ReturnOnEmptyStack ==
    [][Executes(238) /\ machine.stack = <<>> =>
          /\ machine'.program_counter = 512
          /\ machine'.stack = <<>>
          /\ outcome'.kind = "Ok"]_vars

C4_Witness ==
    /\ call.op = "tick"
    /\ Fetch(before) = 238
    /\ before.stack = <<>>
    /\ before.system = "SuperChip"
    /\ before.program_counter = 514
    /\ machine.program_counter = 512
    /\ outcome.kind = "Ok"

(***************************************************************************)
(* C5: a successful tick that changes display_buffer returns    *)
(* true.  This is the half of "returns true exactly when the buffer was    *)
(* mutated" that the scrolls 00FB, 00FC and 00CN break.                    *)
(***************************************************************************)
C5_DisplayChangeReported ==
    [][call'.op = "tick" /\ outcome'.kind = "Ok"
         /\ machine'.display_buffer # machine.display_buffer
       => outcome'.disp_updated]_vars

(***************************************************************************)
(* C6 as stated: after loading 00E0, 1200 one tick from the initial state  *)
(* leaves every pixel unlit and program_counter = 0x200.                   *)
(***************************************************************************)
C6_OneTickParksAt200 ==
    [][call'.op = "tick" /\ machine.program_counter = 512
         /\ machine = Loaded(machine.system, ClearJump)
       => /\ machine'.display_buffer = {}
          /\ machine'.program_counter = 512]_vars

(***************************************************************************)
(* C6 amended: after loading 00E0, 1200 one tick from the initial state    *)
(* leaves every pixel unlit and program_counter = 0x202, the address of    *)
(* the jump, and reports the display updated; the tick after it brings     *)
(* program_counter back to 0x200.                                          *)
(***************************************************************************)
C6_ClearThenJump ==
    [][call'.op = "tick" =>
          /\ /\ machine.program_counter = 512
             /\ machine.display_buffer = {}
             /\ machine = Loaded(machine.system, ClearJump)
             => /\ machine'.display_buffer = {}
                /\ machine'.program_counter = 514
                /\ outcome' = Ok(TRUE)
          /\ /\ call.op = "tick"
             /\ before.program_counter = 512
             /\ before = Loaded(machine.system, ClearJump)
             => /\ machine'.display_buffer = {}
                /\ machine'.program_counter = 512]_vars

\* the first tick of the loaded 00E0, 1200 has run
C6_Witness ==
    /\ call.op = "tick"
    /\ before.program_counter = 512
    /\ before = Loaded(before.system, ClearJump)
    /\ machine.program_counter = 514
    /\ machine.display_buffer = {}

(***************************************************************************)
(* C7: 8xy6 and 8xyE with x not F set Vx to the shift source shifted       *)
(* right or left by one bit and VF to the bit shifted out of that same     *)
(* source, the source being Vy on Chip8 and Vx on SuperChip.               *)
(***************************************************************************)
C7_ShiftFlagFromSource ==
    [][\A x \in 0..14, y \in 0..15 :
          LET source == IF machine.system = "Chip8" THEN V(machine, y) ELSE V(machine, x)
          IN  /\ Executes(W(8, x, y, 6))
                 => /\ V(machine', x) = source \div 2
                    /\ V(machine', 15) = source % 2
              /\ Executes(W(8, x, y, 14))
                 => /\ V(machine', x) = (source * 2) % 256
                    /\ V(machine', 15) = source \div 128]_vars

(***************************************************************************)
(* C8: the step is the second of two successful Dxyn in a row of the same  *)
(* instruction word (x and y not F) with the same Vx, Vy, index_register,  *)
(* ram and resolution, the first of which turned no lit pixel off.         *)
(***************************************************************************)
SecondDrawOfTwo ==
    /\ call.op = "tick"
    /\ call'.op = "tick"
    /\ outcome.kind = "Ok"
    /\ outcome'.kind = "Ok"
    /\ FetchInRange(before)
    /\ FetchInRange(machine)
    /\ Fetch(before) = Fetch(machine)
    /\ DecodeOp(Fetch(machine)) = 13
    /\ DecodeX(Fetch(machine)) # 15
    /\ DecodeY(Fetch(machine)) # 15
    /\ V(before, DecodeX(Fetch(machine))) = V(machine, DecodeX(Fetch(machine)))
    /\ V(before, DecodeY(Fetch(machine))) = V(machine, DecodeY(Fetch(machine)))
    /\ before.index_register = machine.index_register
    /\ before.ram = machine.ram
    /\ before.high_res = machine.high_res
    /\ before.display_buffer \subseteq machine.display_buffer

(***************************************************************************)
(* C8 as stated: the second draw restores the buffer to its state before   *)
(* the first draw and leaves VF = 1, in both variants and resolutions.     *)
(***************************************************************************)
C8_SecondDrawSetsFlagToOne ==
    [][SecondDrawOfTwo
       => /\ machine'.display_buffer = before.display_buffer
          /\ V(machine', 15) = 1]_vars

(***************************************************************************)
(* C8 amended: the second draw restores the buffer to its state before the *)
(* first draw.  In low resolution (Chip8, and SuperChip before 00FF) it    *)
(* leaves VF = 1 if the first draw lit a pixel and VF = 0 if it lit none;  *)
(* in SuperChip high resolution it leaves VF = the number of pixel rows    *)
(* in which the first draw lit a pixel plus the number of sprite rows      *)
(* below the bottom edge.                                                  *)
(***************************************************************************)
C8_SecondDrawRestores ==
    [][SecondDrawOfTwo
       => LET lit == machine.display_buffer \ before.display_buffer
              n == DecodeN(Fetch(machine))
              rows == IF n = 0 THEN 16 ELSE n
              top == V(machine, DecodeY(Fetch(machine))) % 64
              below == IF top + rows > 64 THEN top + rows - 64 ELSE 0
          IN  /\ machine'.display_buffer = before.display_buffer
              /\ V(machine', 15) =
                    IF machine.high_res
                    THEN Cardinality({p[2] : p \in lit}) + below
                    ELSE IF lit # {} THEN 1 ELSE 0]_vars

\* a second draw in high resolution has erased a sprite of several rows
C8_Witness ==
    /\ call.op = "tick"
    /\ outcome.kind = "Ok"
    /\ DecodeOp(Fetch(before)) = 13
    /\ machine.high_res
    /\ machine.system = "SuperChip"
    /\ before.display_buffer # {}
    /\ machine.display_buffer = {}
    /\ V(machine, 15) > 1

(***************************************************************************)
(* C9: the opcode table as the claim lists it, and the SuperChip-only set  *)
(***************************************************************************)
ListedEncodings ==
    {w \in 0..65535 :
        \/ w \in {224, 238}
        \/ DecodeOp(w) \in {1, 2, 3, 4, 6, 7, 10, 11, 12, 13}
        \/ DecodeOp(w) \in {5, 9} /\ DecodeN(w) = 0
        \/ DecodeOp(w) = 8 /\ DecodeN(w) \in {0, 1, 2, 3, 4, 5, 6, 7, 14}
        \/ DecodeOp(w) = 14 /\ DecodeNN(w) \in {158, 161}
        \/ DecodeOp(w) = 15 /\ DecodeNN(w) \in {7, 10, 21, 24, 30, 41, 51, 85, 101}}

ExtendedOnlyEncodings ==
    {w \in 0..65535 :
        \/ w \in {251, 252, 253, 254, 255}
        \/ w \in 192..207
        \/ DecodeOp(w) = 15 /\ DecodeNN(w) \in {48, 117, 133}}

\* the table as the dispatch reads it: 00E0 and 00EE with any second digit,
\* 5xy0 and 9xy0 with any last digit
DispatchedEncodings ==
    ListedEncodings
    \cup {w \in 0..4095 : DecodeNN(w) \in {224, 238}}
    \cup {w \in 0..65535 : DecodeOp(w) \in {5, 9}}

\* a tick on a word outside table fails with IllegalInstruction carrying the word
RejectsOutside(table) ==
    call'.op = "tick" /\ FetchInRange(machine) /\ Fetch(machine) \notin table
    => outcome' = IllegalInstruction(Fetch(machine))

(***************************************************************************)
(* C9 as stated: a word that is not an encoding of the opcode table (on    *)
(* SuperChip: nor of the SuperChip-only set) makes tick fail with          *)
(* IllegalInstruction carrying that word.                                  *)
(***************************************************************************)
C9_UnlistedWordIsIllegal ==
    [][IF machine.system = "Chip8"
       THEN RejectsOutside(ListedEncodings)
       ELSE RejectsOutside(ListedEncodings \cup ExtendedOnlyEncodings)]_vars

(***************************************************************************)
(* C9 amended: the same, with the table read as the dispatch reads it:     *)
(* 0xE0 and 0xEE for any x stand for 00E0 and 00EE, 5xyn and 9xyn for any  *)
(* n stand for 5xy0 and 9xy0.                                              *)
(***************************************************************************)
C9_UnmatchedWordIsIllegal ==
    [][IF machine.system = "Chip8"
       THEN RejectsOutside(DispatchedEncodings)
       ELSE RejectsOutside(DispatchedEncodings \cup ExtendedOnlyEncodings)]_vars

\* SuperChip has rejected 00FA, Chip8 the SuperChip-only 00FF
C9_Witness ==
    /\ call.op = "tick"
    /\ outcome.kind = "IllegalInstruction"
    /\ outcome.code = Fetch(before)
    /\ \/ before.system = "SuperChip" /\ outcome.code = 250
       \/ before.system = "Chip8" /\ outcome.code = 255

(***************************************************************************)
(* C10: on SuperChip a tick on Fx75 or Fx85 returns normally and does not  *)
(* fail with IllegalInstruction.                                           *)
(***************************************************************************)
C10_UserFlagsAccepted ==
    [][ExecutesOneOf({w \in 61440..65535 : DecodeNN(w) \in {117, 133}})
         /\ machine.system = "SuperChip"
       => outcome'.kind = "Ok"]_vars

(***************************************************************************)
(* C11: when an Fx0A key-wait completes (the program counter moves on),    *)
(* Vx is the number of a key whose bit is set in the latch and clear in    *)
(* the current mask, and the latch is reset to 0.                          *)
(***************************************************************************)
KeyWaitWords == {w \in 61440..65535 : DecodeNN(w) = 10}

C11_KeyWaitStoresReleasedKey ==
    [][ExecutesOneOf(KeyWaitWords)
         /\ machine'.program_counter = machine.program_counter + 2
       => LET key == V(machine', DecodeX(Fetch(machine)))
          IN  /\ Bit(machine.previous_keystate, key) = 1
              /\ Bit(call'.held_keys, key) = 0
              /\ machine'.previous_keystate = 0]_vars

(***************************************************************************)
(* C12: Fx55 at base address A with A + x <= 0xFFF, then any overwrite of  *)
(* the registers, then Fx65 with index_register again A, restores V0..Vx   *)
(* to their values at the time of the Fx55.                                *)
(***************************************************************************)
DumpWords == {w \in 61440..65535 : DecodeNN(w) = 85}

LoadWords == {w \in 61440..65535 : DecodeNN(w) = 101}

Overwrites == {[r \in 0..15 |-> 0], [r \in 0..15 |-> 255], [r \in 0..15 |-> 16 * r + 1]}

C12_DumpLoadRoundTrip ==
    [][ExecutesOneOf(DumpWords)
         /\ machine.index_register + DecodeX(Fetch(machine)) <= 4095
       => \A registers \in Overwrites :
             LET x == DecodeX(Fetch(machine))
                 rewound == [machine' EXCEPT !.index_register = machine.index_register,
                                             !.var_registers = registers]
                 loaded == Execute(rewound, W(15, x, 6, 5), NotCalled, NotCalled,
                                   overflow_checks)
             IN  /\ outcome'.kind = "Ok"
                 /\ loaded.res.kind = "Ok"
                 /\ \A i \in 0..x : V(loaded.m, i) = V(machine, i)]_vars

\* RoundTrip(1) has run to its end: V0 and V1, cleared after the dump, are back
C12_Witness ==
    /\ call.op = "tick"
    /\ outcome.kind = "Ok"
    /\ Fetch(before) = W(15, 1, 6, 5)
    /\ before.index_register = 768
    /\ V(before, 0) = 0
    /\ V(before, 1) = 0
    /\ V(machine, 0) = 129
    /\ V(machine, 1) = 255
    /\ Byte(machine.ram, 768) = 129
    /\ Byte(machine.ram, 769) = 255

(***************************************************************************)
(* C13: Fx55 and Fx65 with register field x, on ram that holds I..I+x,     *)
(* leave index_register = I + x + 1 on Chip8 and = I on SuperChip; Fx55    *)
(* changes no ram outside I..I+x and no register, Fx65 changes no ram and  *)
(* no register above Vx; nothing else changes but the program counter,     *)
(* which moves to the next instruction.                                    *)
(***************************************************************************)
C13_DumpLoadFrame ==
    [][ExecutesOneOf(DumpWords \cup LoadWords)
         /\ machine.index_register + DecodeX(Fetch(machine)) < RamSize
       => LET x == DecodeX(Fetch(machine))
              I == machine.index_register
          IN  /\ outcome' = Ok(FALSE)
              /\ machine'.index_register =
                     IF machine.system = "Chip8" THEN I + x + 1 ELSE I
              /\ IF Fetch(machine) \in DumpWords
                 THEN /\ \A a \in (0..(RamSize - 1)) \ (I..(I + x)) :
                             Byte(machine'.ram, a) = Byte(machine.ram, a)
                      /\ machine'.var_registers = machine.var_registers
                 ELSE /\ machine'.ram = machine.ram
                      /\ \A r \in (x + 1)..15 : V(machine', r) = V(machine, r)
              /\ machine' = [machine EXCEPT
                                !.index_register = machine'.index_register,
                                !.ram = machine'.ram,
                                !.var_registers = machine'.var_registers,
                                !.program_counter = @ + 2]]_vars

\* Chip8 has dumped V0 and V1 at 0x300 and moved index_register past them
C13_Witness ==
    /\ call.op = "tick"
    /\ outcome.kind = "Ok"
    /\ Fetch(before) = W(15, 1, 5, 5)
    /\ before.system = "Chip8"
    /\ before.index_register = 768
    /\ machine.index_register = 770
    /\ Byte(machine.ram, 768) = 255
    /\ Byte(machine.ram, 769) = 129

(***************************************************************************)
(* C14: 8xy1, 8xy2 and 8xy3 set Vx to Vx OR, AND, XOR Vy when x is not F;  *)
(* on Chip8 VF is 0 afterwards whatever it was, on SuperChip VF keeps its  *)
(* value when x is not F.                                                  *)
(***************************************************************************)
BitwiseWords == {w \in 32768..36863 : DecodeN(w) \in {1, 2, 3}}

C14_BitwiseAndFlag ==
    [][ExecutesOneOf(BitwiseWords)
       => LET w == Fetch(machine)
              x == DecodeX(w)
              vx == V(machine, x)
              vy == V(machine, DecodeY(w))
              value == CASE DecodeN(w) = 1 -> BitOr(vx, vy)
                         [] DecodeN(w) = 2 -> BitAnd(vx, vy)
                         [] DecodeN(w) = 3 -> BitXor(vx, vy)
          IN  /\ outcome' = Ok(FALSE)
              /\ x # 15 => V(machine', x) = value
              /\ machine.system = "Chip8" => V(machine', 15) = 0
              /\ machine.system = "SuperChip" /\ x # 15
                 => V(machine', 15) = V(machine, 15)]_vars

\* Chip8 has run 80F1 on V0 = 129 and VF = 255
C14_Witness ==
    /\ call.op = "tick"
    /\ Fetch(before) = W(8, 0, 15, 1)
    /\ before.system = "Chip8"
    /\ V(before, 0) = 129
    /\ V(before, 15) = 255
    /\ V(machine, 0) = 255
    /\ V(machine, 15) = 0

(***************************************************************************)
(* C15: 8xy4 sets VF to 1 if Vx + Vy exceeds 255 and to 0 otherwise, and   *)
(* when x is not F sets Vx to (Vx + Vy) mod 256, for all x and y, y = F    *)
(* and x = y included.                                                     *)
(***************************************************************************)
AddWords == {w \in 32768..36863 : DecodeN(w) = 4}

C15_AddWithCarry ==
    [][ExecutesOneOf(AddWords)
       => LET x == DecodeX(Fetch(machine))
              sum == V(machine, x) + V(machine, DecodeY(Fetch(machine)))
          IN  /\ outcome' = Ok(FALSE)
              /\ V(machine', 15) = IF sum > 255 THEN 1 ELSE 0
              /\ x # 15 => V(machine', x) = IF sum > 255 THEN sum - 256 ELSE sum]_vars

\* 80F4 has added VF = 129 to V0 = 255
C15_Witness ==
    /\ call.op = "tick"
    /\ Fetch(before) = W(8, 0, 15, 4)
    /\ V(before, 0) = 255
    /\ V(before, 15) = 129
    /\ V(machine, 0) = 128
    /\ V(machine, 15) = 1

(***************************************************************************)
(* C16: 8xy5 computes Vx - Vy and 8xy7 computes Vy - Vx, wrapping to 8     *)
(* bits, into Vx (x not F), and set VF to 1 exactly when the minuend is at *)
(* least the subtrahend; the same tick on the machine of the other system  *)
(* leaves the same registers.                                              *)
(***************************************************************************)
SubtractWords == {w \in 32768..36863 : DecodeN(w) \in {5, 7}}

C16_SubtractWithBorrow ==
    [][ExecutesOneOf(SubtractWords)
       => LET w == Fetch(machine)
              x == DecodeX(w)
              vx == V(machine, x)
              vy == V(machine, DecodeY(w))
              minuend == IF DecodeN(w) = 5 THEN vx ELSE vy
              subtrahend == IF DecodeN(w) = 5 THEN vy ELSE vx
              other == [machine EXCEPT !.system =
                           IF @ = "Chip8" THEN "SuperChip" ELSE "Chip8"]
          IN  /\ outcome' = Ok(FALSE)
              /\ V(machine', 15) = IF minuend >= subtrahend THEN 1 ELSE 0
              /\ x # 15 => V(machine', x) =
                     IF minuend >= subtrahend THEN minuend - subtrahend
                     ELSE minuend - subtrahend + 256
              /\ tick(other, NotCalled, NotCalled, overflow_checks).m.var_registers
                     = machine'.var_registers]_vars

\* 8015 has subtracted V1 = 129 from V0 = 129
C16_Witness ==
    /\ call.op = "tick"
    /\ Fetch(before) = W(8, 0, 1, 5)
    /\ V(before, 0) = 129
    /\ V(before, 1) = 129
    /\ V(machine, 0) = 0
    /\ V(machine, 15) = 1

(***************************************************************************)
(* C17: Fx33 on ram that holds I..I+2 writes the hundreds, tens and units  *)
(* digit of Vx to ram[I], ram[I+1], ram[I+2], so that each byte is in 0..9 *)
(* and 100 * ram[I] + 10 * ram[I+1] + ram[I+2] = Vx; no other byte of ram  *)
(* and no register changes.                                                *)
(***************************************************************************)
BcdWords == {w \in 61440..65535 : DecodeNN(w) = 51}

C17_BcdDigits ==
    [][ExecutesOneOf(BcdWords) /\ machine.index_register + 2 < RamSize
       => LET I == machine.index_register
              vx == V(machine, DecodeX(Fetch(machine)))
              digit(i) == Byte(machine'.ram, I + i)
          IN  /\ outcome' = Ok(FALSE)
              /\ \A i \in 0..2 : digit(i) \in 0..9
              /\ 100 * digit(0) + 10 * digit(1) + digit(2) = vx
              /\ \A a \in (0..(RamSize - 1)) \ (I..(I + 2)) :
                     Byte(machine'.ram, a) = Byte(machine.ram, a)
              /\ machine' = [machine EXCEPT !.ram = machine'.ram,
                                            !.program_counter = @ + 2]]_vars

\* Bcd has written 1, 2, 9 for V0 = 129 over the font bytes at 0x052
C17_Witness ==
    /\ call.op = "tick"
    /\ Fetch(before) = W(15, 0, 3, 3)
    /\ V(before, 0) = 129
    /\ before.index_register = 82
    /\ Byte(before.ram, 82) # 1
    /\ Byte(machine.ram, 82) = 1
    /\ Byte(machine.ram, 83) = 2
    /\ Byte(machine.ram, 84) = 9

(***************************************************************************)
(* C18: a call of tick_timer decrements delay_timer by 1 if it is nonzero  *)
(* and sound_timer by 1 if it is nonzero, leaves a timer at 0 at 0, and    *)
(* changes nothing else of the machine.                                    *)
(***************************************************************************)
C18_TimersCountDown ==
    [][call'.op = "tick_timer"
       => /\ machine'.delay_timer =
                 IF machine.delay_timer = 0 THEN 0 ELSE machine.delay_timer - 1
          /\ machine'.sound_timer =
                 IF machine.sound_timer = 0 THEN 0 ELSE machine.sound_timer - 1
          /\ machine' = [machine EXCEPT !.delay_timer = machine'.delay_timer,
                                        !.sound_timer = machine'.sound_timer]]_vars

\* tick_timer has found delay_timer at 0 and sound_timer at 1
C18_Witness ==
    /\ call.op = "tick_timer"
    /\ before.delay_timer = 0
    /\ before.sound_timer = 1
    /\ machine.delay_timer = 0
    /\ machine.sound_timer = 0

(***************************************************************************)
(* C19: 00E0 leaves every pixel of the display buffer unlit and tick       *)
(* returns true, whatever the buffer, the system and the resolution.       *)
(***************************************************************************)
C19_ClearReportsUpdate ==
    [][Executes(224)
       => /\ machine'.display_buffer = {}
          /\ outcome' = Ok(TRUE)]_vars

\* 00E0 has cleared a lit buffer in high resolution
C19_Witness ==
    /\ call.op = "tick"
    /\ Fetch(before) = 224
    /\ before.high_res
    /\ before.display_buffer # {}
    /\ machine.display_buffer = {}
    /\ outcome = Ok(TRUE)

(***************************************************************************)
(* C20: high_res is true only on SuperChip, so it is false in every state  *)
(* of a Chip8 machine, and system never changes after construction.        *)
(***************************************************************************)
C20_HighResOnlyOnSuperChip ==
    /\ [](machine.high_res => machine.system = "SuperChip")
    /\ [][machine'.system = machine.system]_vars

\* Chip8 has been asked for high resolution by 00FF and stays in low resolution
C20_Witness ==
    /\ call.op = "tick"
    /\ Fetch(before) = 255
    /\ before.system = "Chip8"
    /\ machine.system = "Chip8"
    /\ ~machine.high_res

(***************************************************************************)
(* C21: on SuperChip a tick on 00FD returns ProgramExited, which is        *)
(* neither StackOverflow nor IllegalInstruction; on Chip8 it returns       *)
(* IllegalInstruction(0x00FD).                                             *)
(***************************************************************************)
C21_ExitOpcode ==
    /\ ProgramExited # StackOverflow
    /\ \A code \in 0..65535 : ProgramExited # IllegalInstruction(code)
    /\ [][Executes(253)
          => outcome' = IF machine.system = "SuperChip"
                        THEN ProgramExited
                        ELSE IllegalInstruction(253)]_vars

\* SuperChip has run 00FD
C21_Witness ==
    /\ call.op = "tick"
    /\ Fetch(before) = 253
    /\ before.system = "SuperChip"
    /\ outcome = ProgramExited

(***************************************************************************)
(* C22: Bnnn sets program_counter to nnn + V0 on Chip8 and to nnn + Vx on  *)
(* SuperChip, x being the high digit of nnn, and changes nothing else.     *)
(***************************************************************************)
C22_JumpWithOffset ==
    [][ExecutesOneOf(45056..49151)
       => LET nnn == Fetch(machine) % 4096
              x == nnn \div 256
              offset == IF machine.system = "Chip8" THEN V(machine, 0) ELSE V(machine, x)
          IN  /\ outcome' = Ok(FALSE)
              /\ machine' = [machine EXCEPT !.program_counter = nnn + offset]]_vars

\* B1C0 with V0 = 129 and V1 = 255 has jumped to 0x1C0 + V1 on SuperChip
C22_Witness ==
    /\ call.op = "tick"
    /\ Fetch(before) = W(11, 1, 12, 0)
    /\ before.system = "SuperChip"
    /\ V(before, 0) = 129
    /\ V(before, 1) = 255
    /\ machine.program_counter = 448 + 255

(***************************************************************************)
(* C23: a tick on Fx0A whose key mask is not numerically below the latch   *)
(* stores the mask in the latch, leaves program_counter at the Fx0A and    *)
(* changes nothing else; so an Fx0A on the latch 0 never completes.        *)
(***************************************************************************)
C23_KeyWaitPending ==
    [][ExecutesOneOf(KeyWaitWords)
       => /\ call'.held_keys >= machine.previous_keystate
             => /\ outcome' = Ok(FALSE)
                /\ machine' = [machine EXCEPT !.previous_keystate = call'.held_keys]
          /\ machine.previous_keystate = 0
             => machine'.program_counter = machine.program_counter]_vars

\* the first poll of an Fx0A has latched key 1 and waits
C23_Witness ==
    /\ call.op = "tick"
    /\ Fetch(before) \in KeyWaitWords
    /\ before.previous_keystate = 0
    /\ call.held_keys = 2
    /\ machine.previous_keystate = 2
    /\ machine.program_counter = before.program_counter
    /\ Fetch(machine) = Fetch(before)

(***************************************************************************)
(* Vocabulary of the draws: the step is a successful tick on a Dxyn.       *)
(* Lowered is the set of pixels the draw turned from lit to unlit; a       *)
(* sprite row is a row of logical pixels, which in low resolution are 2 x  *)
(* 2 blocks of the buffer.                                                 *)
(***************************************************************************)
Draws == ExecutesOneOf(53248..57343) /\ outcome'.kind = "Ok"

Lowered == machine.display_buffer \ machine'.display_buffer

DrawScale == IF machine.high_res THEN 1 ELSE 2

DrawLeft == V(machine, DecodeX(Fetch(machine))) % (DISPLAY_WIDTH \div DrawScale)

DrawTop == V(machine, DecodeY(Fetch(machine))) % (DISPLAY_HEIGHT \div DrawScale)

DrawRows ==
    IF machine.high_res /\ DecodeN(Fetch(machine)) = 0 THEN 16 ELSE DecodeN(Fetch(machine))

DrawWidth == IF machine.high_res /\ DecodeN(Fetch(machine)) = 0 THEN 16 ELSE 8

\* the sprite rows that fall below the bottom edge
RowsBelow ==
    IF DrawTop + DrawRows > DISPLAY_HEIGHT \div DrawScale
    THEN DrawTop + DrawRows - DISPLAY_HEIGHT \div DrawScale
    ELSE 0

\* the number of sprite rows in which a pixel was turned off
RowsCollided == Cardinality({p[2] \div DrawScale : p \in Lowered})

(***************************************************************************)
(* C25 as stated: on SuperChip Dxyn leaves VF = the number of sprite rows  *)
(* with a collision plus the number of sprite rows clipped off the bottom  *)
(* edge; on Chip8 it leaves VF = 1 if any pixel collided and 0 otherwise.  *)
(***************************************************************************)
C25_FlagBySystem ==
    [][Draws
       => V(machine', 15) =
              IF machine.system = "SuperChip"
              THEN RowsCollided + RowsBelow
              ELSE IF Lowered # {} THEN 1 ELSE 0]_vars

(***************************************************************************)
(* C25 amended: the count is that of high resolution, not of SuperChip.    *)
(* In high resolution Dxyn leaves VF = the number of sprite rows with a    *)
(* collision plus the number of sprite rows clipped off the bottom edge.   *)
(* In low resolution, on either system, it leaves VF = 1 if a sprite bit   *)
(* fell on a block whose top left pixel was lit and 0 otherwise; on Chip8  *)
(* that is 1 if any pixel collided and 0 otherwise.                        *)
(***************************************************************************)
C25_FlagByResolution ==
    [][Draws
       => /\ V(machine', 15) =
                 IF machine.high_res
                 THEN RowsCollided + RowsBelow
                 ELSE IF \E p \in Lowered : p[1] % 2 = 0 /\ p[2] % 2 = 0 THEN 1 ELSE 0
          /\ machine.system = "Chip8"
             => V(machine', 15) = IF Lowered # {} THEN 1 ELSE 0]_vars

\* SuperChip in low resolution has erased a sprite of several rows: VF = 1
C25_Witness ==
    /\ call.op = "tick"
    /\ outcome.kind = "Ok"
    /\ Fetch(before) = W(13, 0, 1, 2)
    /\ before.system = "SuperChip"
    /\ ~before.high_res
    /\ Cardinality({p[2] \div 2 : p \in before.display_buffer \ machine.display_buffer}) = 2
    /\ V(machine, 15) = 1

(***************************************************************************)
(* C26: Dxyn draws from (Vx mod W, Vy mod H), W and H the width and height *)
(* of the active resolution, and does not wrap: the pixels it changes are  *)
(* exactly those of the set sprite bits (i, j) at (Vx mod W + j,           *)
(* Vy mod H + i) that are on the screen; the bits beyond the right or the  *)
(* bottom edge are dropped and every other pixel is unchanged.             *)
(***************************************************************************)
SpriteBit(i, j) ==
    IF DrawWidth = 16
    THEN Bit(Byte(machine.ram, machine.index_register + 2 * i) * 256
             + Byte(machine.ram, machine.index_register + 2 * i + 1), 15 - j)
    ELSE Bit(Byte(machine.ram, machine.index_register + i), 7 - j)

C26_DrawClipsAtEdges ==
    [][Draws
       => LET changed == SymDiff(machine.display_buffer, machine'.display_buffer)
          IN  /\ \A p \in changed :
                     LET j == p[1] \div DrawScale - DrawLeft
                         i == p[2] \div DrawScale - DrawTop
                     IN  /\ j \in 0..(DrawWidth - 1)
                         /\ i \in 0..(DrawRows - 1)
                         /\ SpriteBit(i, j) = 1
              /\ \A i \in 0..(DrawRows - 1), j \in 0..(DrawWidth - 1) :
                     /\ SpriteBit(i, j) = 1
                     /\ DrawLeft + j < DISPLAY_WIDTH \div DrawScale
                     /\ DrawTop + i < DISPLAY_HEIGHT \div DrawScale
                     => \A dx, dy \in 0..(DrawScale - 1) :
                            <<DrawScale * (DrawLeft + j) + dx,
                              DrawScale * (DrawTop + i) + dy>> \in changed]_vars

\* a low-resolution draw at column 63 has lit one block of a sprite row 0xFF
C26_Witness ==
    /\ call.op = "tick"
    /\ outcome.kind = "Ok"
    /\ Fetch(before) = W(13, 0, 1, 2)
    /\ ~before.high_res
    /\ V(before, 0) = 255
    /\ V(before, 1) = 0
    /\ Byte(before.ram, before.index_register) = 255
    /\ before.display_buffer = {}
    /\ {p \in machine.display_buffer : p[2] \in 0..1}
           = {<<126, 0>>, <<126, 1>>, <<127, 0>>, <<127, 1>>}

(***************************************************************************)
(* C27: the four quirk opcodes, and the machine of the other system.  A    *)
(* program without quirk and SuperChip-only opcodes never sets high_res,   *)
(* so the two machines run in step if every tick outside those opcodes, in *)
(* low resolution, does the same to both.                                  *)
(***************************************************************************)
QuirkEncodings ==
    {w \in 0..65535 :
        \/ DecodeOp(w) = 8 /\ DecodeN(w) \in {1, 2, 3, 6, 14}
        \/ DecodeOp(w) = 11
        \/ DecodeOp(w) = 15 /\ DecodeNN(w) \in {85, 101}}

OtherSystem(m) ==
    [m EXCEPT !.system = IF @ = "Chip8" THEN "SuperChip" ELSE "Chip8"]

(***************************************************************************)
(* C27: a tick on a word that is neither a quirk opcode nor a              *)
(* SuperChip-only opcode, in low resolution, with the same key mask and    *)
(* random byte, returns the same result on the machine of the other system *)
(* and leaves it with the same program_counter, registers, index_register, *)
(* stack, timers, ram and display buffer; tick_timer does the same to      *)
(* both.                                                                   *)
(***************************************************************************)
C27_SystemsAgreeOutsideQuirks ==
    [][/\ call'.op = "tick" /\ ~machine.high_res
          /\ (FetchInRange(machine)
              => Fetch(machine) \notin QuirkEncodings \cup ExtendedOnlyEncodings)
          => LET r == tick(OtherSystem(machine), call'.held_keys, call'.random,
                           overflow_checks)
             IN  /\ r.res = outcome'
                 /\ r.m = OtherSystem(machine')
       /\ call'.op = "tick_timer"
          => tick_timer(OtherSystem(machine)) = OtherSystem(machine')]_vars

\* SuperChip in low resolution has drawn a sprite, as Chip8 would
C27_Witness ==
    /\ call.op = "tick"
    /\ outcome = Ok(TRUE)
    /\ Fetch(before) = W(13, 0, 1, 2)
    /\ before.system = "SuperChip"
    /\ ~before.high_res
    /\ machine.display_buffer # {}
    /\ tick(OtherSystem(before), NotCalled, NotCalled, overflow_checks).m.display_buffer
           = machine.display_buffer

(***************************************************************************)
(* C28: on SuperChip 00FB moves the buffer right by 4 columns in high      *)
(* resolution and by 8 in low resolution, 00FC left by the same amount,    *)
(* 00CN down by N rows in high resolution and by 2N in low resolution:     *)
(* a pixel is lit afterwards exactly if its source pixel is on the screen  *)
(* and was lit, so what is pushed past the edge is dropped and the vacated *)
(* columns or rows are unlit.                                              *)
(***************************************************************************)
ScrollWords == {251, 252} \cup (192..207)

\* the pixel that p takes its value from
ScrollSource(p) ==
    LET w == Fetch(machine)
        across == IF machine.high_res THEN 4 ELSE 8
        down == IF machine.high_res THEN DecodeN(w) ELSE 2 * DecodeN(w)
    IN  CASE w = 251 -> <<p[1] - across, p[2]>>
          [] w = 252 -> <<p[1] + across, p[2]>>
          [] OTHER -> <<p[1], p[2] - down>>

OnScreen(p) == p[1] \in 0..(DISPLAY_WIDTH - 1) /\ p[2] \in 0..(DISPLAY_HEIGHT - 1)

C28_ScrollsMoveBuffer ==
    [][ExecutesOneOf(ScrollWords) /\ machine.system = "SuperChip"
       => /\ outcome'.kind = "Ok"
          /\ \A p \in machine'.display_buffer : ScrollSource(p) \in machine.display_buffer
          /\ \A q \in machine.display_buffer :
                \A p \in {<<q[1] + dx, q[2] + dy>> : dx \in {0 - 8, 0 - 4, 0, 4, 8},
                                                     dy \in 0..30} :
                    OnScreen(p) /\ ScrollSource(p) = q => p \in machine'.display_buffer
          /\ machine' = [machine EXCEPT !.display_buffer = machine'.display_buffer,
                                        !.program_counter = @ + 2]]_vars

\* 00FB in low resolution has moved the lit pixels 8 columns to the right
C28_Witness ==
    /\ call.op = "tick"
    /\ outcome.kind = "Ok"
    /\ Fetch(before) = 251
    /\ before.system = "SuperChip"
    /\ ~before.high_res
    /\ \E p \in before.display_buffer : p[1] < 8
    /\ machine.display_buffer = {<<p[1] + 8, p[2]>> : p \in before.display_buffer}

(***************************************************************************)
(* The key-wait under a host that keeps calling tick and a player who lets *)
(* go of a held key: a tick on a pending Fx0A whose mask is the latch less *)
(* one key is taken again and again while it is possible.                  *)
(***************************************************************************)
KeyWaitPending ==
    Running /\ FetchInRange(machine) /\ Fetch(machine) \in KeyWaitWords

\* the mask of this poll is the latch with key k released and no other key changed
KeyReleased(k) ==
    /\ Bit(machine.previous_keystate, k) = 1
    /\ call'.held_keys = machine.previous_keystate - Pow2(k)

ReleaseTick == Tick /\ KeyWaitPending /\ \E k \in 0..15 : KeyReleased(k)

\* the host loads a program that waits for a key
KeyWaitPrograms == {Single(w) : w \in KeyWaitWords \cap SingleWords}

LoadKeyWaitProgram ==
    /\ call.op = "load_default_font"
    /\ \E program \in KeyWaitPrograms :
           machine' = load_program(machine, WordsToBytes(program))
    /\ before' = machine
    /\ call' = Call("load_program", NotCalled, NotCalled)
    /\ UNCHANGED <<outcome, overflow_checks, host, frames>>

LiveNext == LoadDefaultFont \/ LoadKeyWaitProgram \/ Tick \/ TickTimer

LiveSpec == Init /\ [][LiveNext]_vars /\ WF_vars(ReleaseTick)

(***************************************************************************)
(* C24: a tick on a pending Fx0A that finds key k, held at the previous    *)
(* poll, released and every other key unchanged completes the wait with    *)
(* Vx = k and program_counter past the Fx0A; so when a held key is         *)
(* eventually released alone, a pending Fx0A with a key latched eventually *)
(* completes.                                                              *)
(***************************************************************************)
C24_KeyWaitCompletes ==
    /\ [][\A k \in 0..15 :
            ExecutesOneOf(KeyWaitWords) /\ KeyReleased(k)
            => /\ outcome' = Ok(FALSE)
               /\ V(machine', DecodeX(Fetch(machine))) = k
               /\ machine'.program_counter = machine.program_counter + 2]_vars
    /\ (KeyWaitPending /\ machine.previous_keystate # 0) ~> ~KeyWaitPending

\* key 1, latched by the poll before, was released and FF0A has stored 1 in VF
C24_Witness ==
    /\ call.op = "tick"
    /\ Fetch(before) = W(15, 15, 0, 10)
    /\ before.previous_keystate = 2
    /\ call.held_keys = 0
    /\ V(machine, 15) = 1
    /\ machine.previous_keystate = 0
    /\ machine.program_counter = before.program_counter + 2

(***************************************************************************)
(* C29: in the desktop host, whatever KeyDown and KeyUp events were        *)
(* handled, the update of the key mask has not overflowed and bit i of the *)
(* mask handed to tick is 1 exactly if the last event handled for key i    *)
(* was a KeyDown.                                                          *)
(***************************************************************************)
C29_MaskTracksKeys ==
    /\ host.exit # "overflow"
    /\ \A i \in 0..15 :
          Bit(host.held_keys, i) = 1
              <=> (i \in DOMAIN host.latest /\ host.latest[i] = "down")

(***************************************************************************)
(* C30: in the desktop host, once an execution_loop has returned the error *)
(* of a tick, no further execution_loop, hence no tick and no tick_timer,  *)
(* runs on the machine.                                                    *)
(***************************************************************************)
C30_NoTickAfterError ==
    [][host.failed => host'.loops = host.loops]_vars

(***************************************************************************)
(* C31: a tick that returns StackOverflow, IllegalInstruction or           *)
(* ProgramExited leaves the machine as it was before the call except for   *)
(* program_counter, which is 2 more: the stack, the registers, the index   *)
(* register, the memory, the timers, the display buffer, the key latch and *)
(* high_res are unchanged.                                                 *)
(***************************************************************************)
C31_ErrorOnlyAdvances ==
    [][Tick /\ ReturnedError(outcome') =>
          machine' = [machine EXCEPT !.program_counter = @ + 2]]_vars

\* the 17th call in a row has failed, two bytes on and nothing else changed
C31_Witness ==
    /\ call.op = "tick"
    /\ outcome = StackOverflow
    /\ Len(before.stack) = StackCapacity
    /\ before.display_buffer = {}
    /\ machine = [before EXCEPT !.program_counter = before.program_counter + 2]

(***************************************************************************)
(* C32: while high_res has not been set, every aligned 2x2 block of the    *)
(* display buffer is all lit or all unlit.  The buffer starts that way,    *)
(* and a step from a machine in low resolution to a machine in low         *)
(* resolution (a clear, a draw, a scroll, any other call) keeps it that    *)
(* way; so it holds on Chip8 always and on SuperChip up to the first 00FF. *)
(***************************************************************************)
\* the four pixels of the aligned 2x2 block of p
Block(p) ==
    {<<2 * (p[1] \div 2) + dx, 2 * (p[2] \div 2) + dy>> : dx \in {0, 1}, dy \in {0, 1}}

BlocksUniform(display_buffer) == \A p \in display_buffer : Block(p) \subseteq display_buffer

C32_LowResBlocksUniform ==
    /\ BlocksUniform(machine.display_buffer)
    /\ [][~machine.high_res /\ ~machine'.high_res /\ BlocksUniform(machine.display_buffer)
             => BlocksUniform(machine'.display_buffer)]_vars

\* a program that starts with 00FE has drawn and has scrolled what is lit down by 6 rows
C32_Witness ==
    /\ call.op = "tick"
    /\ Fetch(before) = W(0, 0, 12, 3)
    /\ before.system = "SuperChip"
    /\ Byte(machine.ram, ProgramStart + 1) = 254
    /\ ~before.high_res
    /\ before.display_buffer # {}
    /\ machine.display_buffer = {<<p[1], p[2] + 6>> : p \in before.display_buffer}
    /\ BlocksUniform(machine.display_buffer)

(***************************************************************************)
(* C33: call and return are inverse and last in, first out.  A 2nnn at     *)
(* address A on a stack of fewer than 16 entries opens a frame; the        *)
(* matching 00EE, the one that closes that frame after the calls and       *)
(* returns nested in it have closed theirs, leaves program_counter at      *)
(* A + 2 and the stack with the contents it had before the 2nnn.  Between  *)
(* the two there are as many open frames as stack entries.                 *)
(***************************************************************************)
C33_CallReturnInverse ==
    /\ [](Len(frames) = Len(machine.stack))
    /\ [][Tick /\ FetchInRange(machine) /\ Returns(Fetch(machine)) /\ frames # <<>>
            => /\ outcome'.kind = "Ok"
               /\ machine'.program_counter = frames[Len(frames)].address + 2
               /\ machine'.stack = frames[Len(frames)].stack]_vars

\* the routine at 0x204 of Nested returns to 0x202 after its two calls, one of them
\* nested twice, have returned
C33_Witness ==
    /\ call.op = "tick"
    /\ outcome.kind = "Ok"
    /\ Fetch(before) = W(0, 0, 14, 14)
    /\ before.program_counter = At(4)
    /\ before.stack = <<At(1)>>
    /\ Fetch([before EXCEPT !.program_counter = At(5)]) = 8192 + At(7)
    /\ machine.program_counter = At(1)
    /\ machine.stack = <<>>
    /\ frames = <<>>

====
